---------------------------- MODULE Spec2Model ----------------------------
(***************************************************************************)
(* A model of montelight.cc: the ray caster's vector algebra, the          *)
(* ray-sphere intersection, the nearest-hit scan, the camera-ray           *)
(* generation and the pixel loop of main, and the Image buffer with its    *)
(* PPM writer.                                                             *)
(*                                                                         *)
(* Numbers.  The program computes in double.  The model computes in fixed  *)
(* point: a number is held as a whole count of 1/Scale, and every product, *)
(* quotient and square root is rounded toward zero to that resolution.     *)
(* Sums, differences and comparisons are exact.                            *)
(***************************************************************************)
EXTENDS Integers, Sequences, FiniteSets, TLC

VARIABLES
  pc,       \* position of main: "pixel", "ray", "scan", "setpixel", "save", "done", "crashed"
  width,    \* Image::width
  height,   \* Image::height
  pixels,   \* Image::pixels, the allocated buffer: index 0 .. width*height-1
  beyond,   \* what setPixel stored past the end of the buffer: index -> Vector
  calls,    \* the setPixel calls made so far, in order: <<x, y>> each
  file,     \* the lines Image::save has put out
  saves,    \* how many times Image::save has been called
  scene,    \* main's scene: a sequence of Spheres
  samples,  \* main's loop variables
  y,
  x,
  d,        \* main's d
  ray,      \* main's ray
  color,    \* main's color
  closest,  \* main's closest
  i,        \* the position of `for (auto obj : scene)`: the next shape, 1-based
  hit       \* main's hit: what the last intersects call returned

vars == <<pc, width, height, pixels, beyond, calls, file, saves, scene,
          samples, y, x, d, ray, color, closest, i, hit>>

(***************************************************************************)
(* Fixed-point arithmetic standing for double.                             *)
(***************************************************************************)
Scale == 1000

Abs(a) == IF a < 0 THEN -a ELSE a

\* a * b for a, b >= 0 at resolution 1/Scale, without an intermediate beyond
\* 32 bits: b is split into its whole and its fractional part.
MulSplit(a, b) == a * (b \div Scale) + (a * (b % Scale)) \div Scale

\* a * b, rounded toward zero: as in double, (-a) * b = -(a * b)
Mul(a, b) ==
  LET m == IF Abs(a) <= Abs(b) THEN MulSplit(Abs(a), Abs(b))
           ELSE MulSplit(Abs(b), Abs(a))
  IN  IF (a < 0) = (b < 0) THEN m ELSE -m

\* r * r <= v * Scale, for r >= 0
SquareAtMost(r, v) ==
  LET f == Mul(r, r)
      m == r % Scale
  IN  f < v \/ (f = v /\ (m * m) % Scale = 0)

RECURSIVE SqrtSearch(_, _, _)
SqrtSearch(v, lo, hi) ==
  IF lo >= hi THEN lo
  ELSE LET mid == (lo + hi + 1) \div 2
       IN  IF SquareAtMost(mid, v) THEN SqrtSearch(v, mid, hi)
           ELSE SqrtSearch(v, lo, mid - 1)

\* sqrt(v) for v >= 0: the largest r with (r/Scale)^2 <= v/Scale
Sqrt(v) ==
  LET top == IF v > Scale THEN v ELSE Scale
      hi  == IF top > 1465 * Scale THEN 1465 * Scale ELSE top
  IN  SqrtSearch(v, 0, hi)

\* 1 / m for m # 0
Recip(m) == (Scale * Scale) \div m

(***************************************************************************)
(* struct Vector                                                           *)
(***************************************************************************)
Vector(a, b, c) == [x |-> a, y |-> b, z |-> c]

Plus(u, o) == Vector(u.x + o.x, u.y + o.y, u.z + o.z)

Minus(u, o) == Vector(u.x - o.x, u.y - o.y, u.z - o.z)

\* operator*(double o), o a fixed-point number
Times(u, o) == Vector(Mul(u.x, o), Mul(u.y, o), Mul(u.z, o))

dot(u, o) == Mul(u.x, o.x) + Mul(u.y, o.y) + Mul(u.z, o.z)

\* the value norm() leaves in *this and returns a reference to
norm(u) == Times(u, Recip(Sqrt(Mul(u.x, u.x) + Mul(u.y, u.y) + Mul(u.z, u.z))))

cross(u, o) ==
  Vector(Mul(u.y, o.z) - Mul(u.z, o.y),
         Mul(u.z, o.x) - Mul(u.x, o.z),
         Mul(u.x, o.y) - Mul(u.y, o.x))

(***************************************************************************)
(* struct Ray                                                              *)
(***************************************************************************)
Ray(o, dir) == [origin |-> o, direction |-> dir]


(***************************************************************************)
(* struct Image                                                            *)
(***************************************************************************)
\* new Vector[width * height]: every element default-constructed, (0, 0, 0)
NewPixels(w, h) == [k \in 0 .. w * h - 1 |-> Vector(0, 0, 0)]

\* the storage index setPixel computes
Index(px, py) == (height - py) * width + px

\* pixels[Index(px, py)] = v.  A store inside the buffer changes it.  A store
\* past its end is undefined behaviour: it lands in the memory behind the
\* buffer and the program goes on, or the program is killed.
SetPixel(px, py, v, survives) ==
  LET k == Index(px, py)
  IN  /\ calls' = Append(calls, <<px, py>>)
      /\ IF k \in DOMAIN pixels
           THEN /\ survives
                /\ pixels' = [pixels EXCEPT ![k] = v]
                /\ beyond' = beyond
           ELSE /\ pixels' = pixels
                /\ beyond' = IF survives THEN (k :> v) @@ beyond ELSE beyond

\* operator<< of an unsigned int: its decimal digits
RECURSIVE Digits(_)
Digits(n) == IF n < 10 THEN <<n>> ELSE Append(Digits(n \div 10), n % 10)

\* unsigned int r = c * 255: the product, truncated
Channel(c) == (c * 255) \div Scale

PixelLine(v) == <<Digits(Channel(v.x)), Digits(Channel(v.y)), Digits(Channel(v.z))>>

HeaderLine == <<"P3", Digits(width), Digits(height), Digits(255)>>

\* what save writes: the header, then one line for each of pixels[0 .. width*height-1]
Saved == <<HeaderLine>> \o [k \in 1 .. width * height |-> PixelLine(pixels[k - 1])]

(***************************************************************************)
(* struct Shape, struct Sphere                                             *)
(***************************************************************************)
\* Sphere(center_, radius_, color_) : Shape(color_), center(center_), radius(radius_).
\* color is Shape::color; Sphere declares a color of its own, which the
\* constructor leaves default-constructed and nothing reads.
Sphere(center_, radius_, color_) ==
  [color |-> color_, center |-> center_, radius |-> radius_,
   ownColor |-> Vector(0, 0, 0)]

\* 0.01f is 0.00999999977648...: a whole number of 1/Scale exceeds it exactly
\* when it exceeds 9
EPSILON == 9

Offset(s, r) == Minus(r.origin, s.center)

QuadA(r) == dot(r.direction, r.direction)

QuadB(s, r) == 2 * dot(Offset(s, r), r.direction)

QuadC(s, r) == dot(Offset(s, r), Offset(s, r)) - Mul(s.radius, s.radius)

\* b * b - 4 * a * c
Discriminant(s, r) == Mul(QuadB(s, r), QuadB(s, r)) - Mul(4 * QuadA(r), QuadC(s, r))

\* t = - b - disc, disc being sqrt(disc) by then
NearRoot(b, sq) == - b - sq

\* the sign of b lost in the far root
FarRootSignSlip(b, sq) == b + sq

\* t = - b + disc
FarRoot(b, sq) == - b + sq

\* the tolerance dropped: any root ahead of the origin is taken
AcceptsAnyPositive(t) == t > 0

Accepts(t) == t > EPSILON

intersects(s, r) ==
  LET b    == QuadB(s, r)
      disc == Discriminant(s, r)
      sq   == Sqrt(disc)
  IN  IF disc < 0 THEN 0
      ELSE IF Accepts(NearRoot(b, sq)) THEN NearRoot(b, sq)
      ELSE IF Accepts(FarRoot(b, sq)) THEN FarRoot(b, sq)
      ELSE 0

(***************************************************************************)
(* main                                                                    *)
(***************************************************************************)
\* Bounds of the model.  main renders 256 x 256; the model renders every
\* size up to MaxWidth x MaxHeight.
MaxWidth == 3

MaxHeight == 3

Samples == 1

\* 0.5135, to the nearest 1/Scale
Fov == 514

FocalPush == 140

\* double closest = 1e20f: beyond every distance; the largest number the
\* model's arithmetic holds
Farthest == 2147483647

Black == Vector(0, 0, 0)

White == Vector(Scale, Scale, Scale)

\* The spheres of main's scene that the model's arithmetic can hold: Mirr,
\* Glas and Light.  The six walls, of radius 1e5, are beyond it.
Scene ==
  << Sphere(Vector(27000, 16500, 47000), 16500, Times(White, 900)),
     Sphere(Vector(73000, 16500, 78000), 16500, Times(White, 900)),
     Sphere(Vector(50000, 681600 - 270, 81600), 600000, White) >>

\* Ray(Vector(50, 52, 295.6), Vector(0, -0.042612, -1).norm())
camera == Ray(Vector(50000, 52000, 295600), norm(Vector(0, -43, -Scale)))

cx == Vector((width * Fov) \div height, 0, 0)

cy == Times(norm(cross(cx, camera.direction)), Fov)

\* (p / float(n)) - 0.5
Centered(p, n) == (p * Scale) \div n - Scale \div 2

\* d as line 139 computes it, before it is normalised
Direction(px, py) ==
  Plus(Plus(Times(cx, Centered(px, width)), Times(cy, Centered(py, height))),
       camera.direction)

\* camera.origin + d * 140
Pushed(v) == Plus(camera.origin, Times(v, FocalPush * Scale))

\* Vector d = ...
ComputeD ==
  /\ pc = "pixel"
  /\ d' = Direction(x, y)
  /\ pc' = "ray"
  /\ UNCHANGED <<width, height, pixels, beyond, calls, file, saves, scene,
                 samples, y, x, ray, color, closest, i, hit>>

\* Ray ray = Ray(camera.origin + d * 140, d.norm()); Vector color; double closest = 1e20f;
\* The two arguments are evaluated in either order, and d.norm() changes d.
BuildRay ==
  /\ pc = "ray"
  /\ \/ ray' = Ray(Pushed(d), norm(d))          \* camera.origin + d * 140 first
     \/ ray' = Ray(Pushed(norm(d)), norm(d))    \* d.norm() first
  /\ d' = norm(d)
  /\ color' = Black
  /\ closest' = Farthest
  /\ i' = 1
  /\ pc' = "scan"
  /\ UNCHANGED <<width, height, pixels, beyond, calls, file, saves, scene,
                 samples, y, x, hit>>

\* a later shape at the same distance replaces an earlier one
CloserOrTied(h, c) == h > 0 /\ h <= c

\* the comparison with closest dropped: the last shape hit wins
AnyHit(h, c) == h > 0

\* hit > 0 && hit < closest
Closer(h, c) == h > 0 /\ h < c

\* one pass of the body of `for (auto obj : scene)`
ScanStep ==
  /\ pc = "scan"
  /\ i <= Len(scene)
  /\ hit' = intersects(scene[i], ray)
  /\ IF Closer(hit', closest)
       THEN color' = scene[i].color /\ closest' = hit'
       ELSE UNCHANGED <<color, closest>>
  /\ i' = i + 1
  /\ UNCHANGED <<pc, width, height, pixels, beyond, calls, file, saves, scene,
                 samples, y, x, d, ray>>

\* the end of `for (auto obj : scene)`
ScanExit ==
  /\ pc = "scan"
  /\ i > Len(scene)
  /\ pc' = "setpixel"
  /\ UNCHANGED <<width, height, pixels, beyond, calls, file, saves, scene,
                 samples, y, x, d, ray, color, closest, i, hit>>

\* ++x, ++y, ++samples and the three loop tests; `body` is where the loop
\* body starts
Advance(body) ==
  IF x + 1 < width
    THEN x' = x + 1 /\ pc' = body /\ UNCHANGED <<y, samples>>
  ELSE IF y + 1 < height
    THEN x' = 0 /\ y' = y + 1 /\ pc' = body /\ UNCHANGED samples
  ELSE /\ x' = 0
       /\ y' = 0
       /\ samples' = samples + 1
       /\ pc' = IF samples + 1 < Samples THEN body ELSE "save"

\* img.setPixel(x, y, color), and on to the next pixel
StorePixel ==
  /\ pc = "setpixel"
  /\ \/ SetPixel(x, y, color, TRUE) /\ Advance("pixel")
     \/ /\ Index(x, y) \notin DOMAIN pixels
        /\ SetPixel(x, y, color, FALSE)
        /\ pc' = "crashed"
        /\ UNCHANGED <<samples, y, x>>
  /\ UNCHANGED <<width, height, file, saves, scene, d, ray, color, closest, i, hit>>

\* img.save("render"); return 0;
Save ==
  /\ pc = "save"
  /\ file' = Saved
  /\ saves' = saves + 1
  /\ pc' = "done"
  /\ UNCHANGED <<width, height, pixels, beyond, calls, scene,
                 samples, y, x, d, ray, color, closest, i, hit>>

\* Image img(w, h); scene; camera; the loop variables at their first values
Init ==
  /\ width \in 1 .. MaxWidth
  /\ height \in 1 .. MaxHeight
  /\ pixels = NewPixels(width, height)
  /\ beyond = << >>
  /\ calls = << >>
  /\ file = << >>
  /\ saves = 0
  /\ scene = Scene
  /\ samples = 0
  /\ y = 0
  /\ x = 0
  /\ d = Black
  /\ ray = Ray(Black, Black)
  /\ color = Black
  /\ closest = Farthest
  /\ i = 1
  /\ hit = 0
  /\ pc = "pixel"

Next == ComputeD \/ BuildRay \/ ScanStep \/ ScanExit \/ StorePixel \/ Save

Spec == Init /\ [][Next]_vars

(***************************************************************************)
(* The nearest-hit scan of lines 142-150 as a function of scene and ray.   *)
(***************************************************************************)
\* what the loop reads of each shape: obj->intersects(ray) and obj->color
Readings(sc, r) == [k \in 1 .. Len(sc) |-> [hit |-> intersects(sc[k], r), color |-> sc[k].color]]

RECURSIVE ScanFrom(_, _, _, _)
ScanFrom(rs, k, col, cl) ==
  IF k > Len(rs) THEN col
  ELSE IF Closer(rs[k].hit, cl) THEN ScanFrom(rs, k + 1, rs[k].color, rs[k].hit)
  ELSE ScanFrom(rs, k + 1, col, cl)

Resolve(sc, r) == ScanFrom(Readings(sc, r), 1, Black, Farthest)

(***************************************************************************)
(* Sphere::intersects on its own: one sphere, one ray, drawn from bounded  *)
(* sets, and the scan's loop body calling intersects on them.              *)
(***************************************************************************)
MaxCoord == 2

MaxRadius == 2

\* fractions of a unit that put a surface within, at and beyond EPSILON of an origin
Fine == {0, 4, 5}

Red == Vector(Scale, 0, 0)

Centers ==
  {Vector(k * Scale + f, l * Scale, 0) : k \in 0 .. MaxCoord, f \in Fine, l \in 0 .. 1}

Radii == {k * Scale : k \in 1 .. MaxRadius}

Origins == {Vector(k * Scale, 0, 0) : k \in -MaxCoord .. MaxCoord}

\* unit directions along the axes and off them, and one of length 2
Directions ==
  { Vector(Scale, 0, 0), Vector(-Scale, 0, 0), Vector(0, Scale, 0),
    Vector(0, 0, -Scale), Vector(600, 800, 0), norm(Vector(-Scale, Scale, 0)),
    Vector(2 * Scale, 0, 0) }

\* the variables of the image and of the pixel loop, where no image is rendered
NoImage ==
  /\ width = 1
  /\ height = 1
  /\ pixels = NewPixels(1, 1)
  /\ beyond = << >>
  /\ calls = << >>
  /\ file = << >>
  /\ saves = 0
  /\ samples = 0
  /\ y = 0
  /\ x = 0
  /\ d = Black

\* Vector color; double closest = 1e20f; and the scan at its first shape
ScanStart ==
  /\ color = Black
  /\ closest = Farthest
  /\ i = 1
  /\ hit = 0
  /\ pc = "scan"

InitIntersect ==
  /\ NoImage
  /\ ScanStart
  /\ \E c \in Centers, r \in Radii : scene = << Sphere(c, r, White) >>
  /\ \E o \in Origins, dir \in Directions : ray = Ray(o, dir)

NextIntersect == ScanStep \/ ScanExit

SpecIntersect == InitIntersect /\ [][NextIntersect]_vars

(***************************************************************************)
(* The nearest-hit scan on its own: every scene of up to MaxShapes spheres *)
(* of a small set, every ray of a small set.                               *)
(***************************************************************************)
MaxShapes == 3

ScanShapes ==
  {Sphere(Vector(2 * k * Scale, 0, 0), Scale, col) : k \in 1 .. 2, col \in {Red, White}}
    \cup {Sphere(Vector(0, 3 * Scale, 0), Scale, Times(White, 750))}

ScanRays ==
  {Ray(Vector(o * Scale, 0, 0), dir) :
     o \in {0, 3}, dir \in {Vector(Scale, 0, 0), Vector(-Scale, 0, 0), Vector(0, Scale, 0)}}

Scenes == UNION {[1 .. n -> ScanShapes] : n \in 0 .. MaxShapes}

InitScan ==
  /\ NoImage
  /\ ScanStart
  /\ scene \in Scenes
  /\ ray \in ScanRays

NextScan == ScanStep \/ ScanExit

SpecScan == InitScan /\ [][NextScan]_vars

(***************************************************************************)
(* The Image on its own: an image of every size up to MaxWidth x           *)
(* MaxHeight, setPixel called for every (x, y) of it with one color, then  *)
(* save.                                                                   *)
(***************************************************************************)
FillColors == {Red, White, Times(White, 750), Black}

FillPixel ==
  /\ pc = "fill"
  /\ \/ SetPixel(x, y, color, TRUE) /\ Advance("fill")
     \/ /\ Index(x, y) \notin DOMAIN pixels
        /\ SetPixel(x, y, color, FALSE)
        /\ pc' = "crashed"
        /\ UNCHANGED <<samples, y, x>>
  /\ UNCHANGED <<width, height, file, saves, scene, d, ray, color, closest, i, hit>>

InitImage ==
  /\ width \in 1 .. MaxWidth
  /\ height \in 1 .. MaxHeight
  /\ pixels = NewPixels(width, height)
  /\ beyond = << >>
  /\ calls = << >>
  /\ file = << >>
  /\ saves = 0
  /\ scene = << >>
  /\ samples = 0
  /\ y = 0
  /\ x = 0
  /\ d = Black
  /\ ray = Ray(Black, Black)
  /\ color \in FillColors
  /\ closest = Farthest
  /\ i = 1
  /\ hit = 0
  /\ pc = "fill"

NextImage == FillPixel \/ Save

SpecImage == InitImage /\ [][NextImage]_vars

(***************************************************************************)
(* Properties                                                              *)
(***************************************************************************)
\* the one sphere and the result of intersects on it, under SpecIntersect
Called == pc = "scan" /\ i = 2 /\ Len(scene) = 1

\* the direction is a unit vector along one axis
AxisUnit(v) == Abs(v.x) + Abs(v.y) + Abs(v.z) = Scale /\ Scale \in {Abs(v.x), Abs(v.y), Abs(v.z)}

\* the distance from the ray's origin to the sphere's center, when the center
\* lies on the ray and the ray runs along an axis
AlongRay(s, r) == dot(Minus(s.center, r.origin), r.direction)

PointsAtCenter(s, r) ==
  /\ AxisUnit(r.direction)
  /\ AlongRay(s, r) > 0
  /\ Minus(s.center, r.origin) = Times(r.direction, AlongRay(s, r))

Outside(s, r) == dot(Offset(s, r), Offset(s, r)) > Mul(s.radius, s.radius)

PointsAway(s, r) == AlongRay(s, r) < 0

\* C1: for a unit ray from strictly outside a sphere that points exactly at
\* its center, intersects returns distanceToCenter - radius.
C1_DistanceToSurface ==
  (Called /\ PointsAtCenter(scene[1], ray) /\ AlongRay(scene[1], ray) > scene[1].radius)
    => hit = AlongRay(scene[1], ray) - scene[1].radius

\* C2: intersects returns 0 on a negative discriminant, else the near root
\* -b - sqrt(disc) if it exceeds EPSILON, else the far root -b + sqrt(disc)
\* if it exceeds EPSILON, else 0; so the result is 0 or exceeds EPSILON.
C2_RootSelection ==
  Called =>
    LET disc == Discriminant(scene[1], ray)
        t1   == - QuadB(scene[1], ray) - Sqrt(disc)
        t2   == - QuadB(scene[1], ray) + Sqrt(disc)
    IN  /\ disc < 0 => hit = 0
        /\ disc >= 0 =>
             \/ t1 > EPSILON /\ hit = t1
             \/ t1 <= EPSILON /\ t2 > EPSILON /\ hit = t2
             \/ t1 <= EPSILON /\ t2 <= EPSILON /\ hit = 0
        /\ hit = 0 \/ hit > EPSILON

\* the near root lies in the band (0, EPSILON] and the far root was returned
C2_Witness ==
  /\ Called
  /\ Discriminant(scene[1], ray) >= 0
  /\ - QuadB(scene[1], ray) - Sqrt(Discriminant(scene[1], ray)) \in 1 .. EPSILON
  /\ hit = - QuadB(scene[1], ray) + Sqrt(Discriminant(scene[1], ray))
  /\ hit > EPSILON

\* C9: for a ray from outside a sphere that points away from it, intersects
\* returns 0.
C9_BehindIsMiss ==
  (Called /\ Outside(scene[1], ray) /\ PointsAway(scene[1], ray)) => hit = 0

\* the ray's line cuts the sphere, behind the origin
C9_Witness ==
  /\ Called
  /\ Outside(scene[1], ray)
  /\ PointsAway(scene[1], ray)
  /\ Discriminant(scene[1], ray) > 0
  /\ hit = 0

\* the scan has gone through the whole scene
Scanned == pc = "setpixel"

\* the shapes with a positive intersects value, rs being Readings(scene, ray)
Hits(rs) == {k \in DOMAIN rs : rs[k].hit > 0}

\* the shapes whose intersects value is the smallest positive one
Nearest(rs) == {k \in Hits(rs) : \A j \in Hits(rs) : rs[k].hit <= rs[j].hit}

First(S) == CHOOSE k \in S : \A j \in S : k <= j

Permuted(sc, p) == [k \in 1 .. Len(sc) |-> sc[p[k]]]

\* the scan returns `color` for every order of the scene's shapes; a shape's
\* intersects value and color do not depend on its place
SameInEveryOrder ==
  LET rs == Readings(scene, ray)
  IN  /\ \A p \in Permutations(1 .. Len(scene)) :
           ScanFrom(Permuted(rs, p), 1, Black, Farthest) = color
      /\ Resolve(Permuted(scene, [k \in 1 .. Len(scene) |-> Len(scene) + 1 - k]), ray) = color

\* C4 as stated: the scan returns the same color for every order of the
\* same shapes.
C4_OrderIrrelevant == Scanned => SameInEveryOrder

\* all shapes at the smallest positive intersects value have one color
NoTieOfColors(rs) == \A j, k \in Nearest(rs) : rs[j].color = rs[k].color

\* C4, amended: the scan returns the same color for every order of the same
\* shapes, provided the shapes that attain the smallest positive intersects
\* value all have the same color.
C4_OrderIrrelevantWithoutTies ==
  (Scanned /\ NoTieOfColors(Readings(scene, ray))) => SameInEveryOrder

\* three shapes, two of them hit at different distances and of different colors
C4_Witness ==
  /\ Scanned
  /\ Len(scene) = 3
  /\ LET rs == Readings(scene, ray)
     IN  /\ NoTieOfColors(rs)
         /\ \E j, k \in Hits(rs) : rs[k].hit < rs[j].hit /\ rs[j].color # rs[k].color

\* the pixel loop has ended
Rendered == pc \in {"save", "done"}

\* how many setPixel calls stored at index k
StoresAt(k) == Cardinality({n \in 1 .. Len(calls) : Index(calls[n][1], calls[n][2]) = k})

\* C5: after the render loop every slot 0 .. width*height-1 of the grid has
\* been written exactly once by setPixel.
C5_EverySlotWrittenOnce ==
  Rendered => \A k \in 0 .. width * height - 1 : StoresAt(k) = 1

\* C10: every setPixel call of the render loop stores inside the buffer, at
\* an index in 0 .. width*height-1.
C10_StoresInsideBuffer ==
  \A n \in 1 .. Len(calls) :
    Index(calls[n][1], calls[n][2]) \in 0 .. width * height - 1

RECURSIVE ParseUInt(_)
ParseUInt(ds) ==
  IF Len(ds) = 0 THEN 0
  ELSE 10 * ParseUInt(SubSeq(ds, 1, Len(ds) - 1)) + ds[Len(ds)]

\* C6: an image filled with (1,0,0) through setPixel and saved is the header
\* P3 <width> <height> 255 and width*height lines that parse as (255, 0, 0).
C6_RedRoundTrip ==
  (pc = "done" /\ color = Red) =>
    /\ Len(file) = 1 + width * height
    /\ file[1][1] = "P3"
    /\ ParseUInt(file[1][2]) = width
    /\ ParseUInt(file[1][3]) = height
    /\ ParseUInt(file[1][4]) = 255
    /\ \A n \in 2 .. Len(file) :
         <<ParseUInt(file[n][1]), ParseUInt(file[n][2]), ParseUInt(file[n][3])>> = <<255, 0, 0>>

\* C7: the camera ray has origin camera.origin + 140 * d for the d not yet
\* normalised, and direction normalize(d), in whichever order the
\* constructor's arguments are evaluated.
C7_OriginFromRawDirection ==
  (pc = "scan" /\ i = 1) =>
    /\ ray.origin = Pushed(Direction(x, y))
    /\ ray.direction = norm(Direction(x, y))

\* the setPixel calls of the whole loop: rows outer, columns inner
RowMajor == [n \in 1 .. width * height |-> <<(n - 1) % width, (n - 1) \div width>>]

\* C8: every run calls save exactly once, after all width*height setPixel
\* calls, makes no setPixel call after it, and ends after it.
C8_SavedOnceAfterLoop ==
  /\ saves <= 1
  /\ saves = 1 => (calls = RowMajor /\ pc = "done")
  /\ pc \in {"done", "crashed"} => saves = 1

=============================================================================
